---- MODULE Spec2Model ----
(***************************************************************************)
(* SparrowTrack attendance engine (src/Backend/attendance-handler.js):     *)
(* the punch state machine of AttendanceHandler over the attendance item   *)
(* that DataManager keeps in localStorage.                                 *)
(*                                                                         *)
(* Representation.                                                         *)
(*  - A calendar date (the 'YYYY-MM-DD' key) is its day number, the days   *)
(*    since 1970-01-01; DateKey gives the string it stands for.             *)
(*  - A wall-clock reading is a number of seconds since local midnight; the *)
(*    'HH:MM:SS' string the code stores is the triple <<HH, MM, SS>>.       *)
(*  - A duration in hours h is kept exactly as the integer 3600 * h, i.e.   *)
(*    in seconds (all clock readings are whole seconds).                    *)
(*  - null is the empty tuple NULL; a string is a tuple of characters, so   *)
(*    the empty string '' is the empty tuple too (both are falsy in JS).    *)
(*  - The attendance mapping is a function user -> (date -> record) whose   *)
(*    domains are the keys present in the JSON object.                      *)
(***************************************************************************)
EXTENDS Integers, Sequences, FiniteSets, TLC

VARIABLES
    store,   \* parsed content of localStorage['sparrowtrack_attendance']
    today,   \* the system clock's local calendar date
    now,     \* the system clock's local time of day, in seconds
    pre,     \* the store as it was when the last step began
    last,    \* what the last step was and what it returned
    steps,   \* number of steps taken so far
    inflight \* per caller, the punchIn call it has under way

vars == <<store, today, now, pre, last, steps, inflight>>

----------------------------------------------------------------------------
(* Bounds of the model *)

MaxDate == 2
MaxTick == 2
MaxSteps == 5
MaxRecords == 3
MaxSeconds == 7320

----------------------------------------------------------------------------
(* Values *)

NULL == << >>

Truthy(v) == v # NULL

EmptyMap == [k \in {} |-> NULL]

Users == {"ann@sparrow.io", "bob@sparrow.io"}

\* What a caller may pass as userEmail: an identifier, or '' (undefined and
\* null fail the same `!userEmail` test as '').
UserArgs == Users \cup {""}

\* Fault: the identifier is never tested
UserGiven_Unchecked(userEmail) == TRUE

UserGiven(userEmail) == userEmail # ""

Dates == 1..MaxDate

\* Clock readings the model draws from: every 2.5 hours from midnight
ClockReadings == {k * 9000 : k \in 0..MaxTick}

\* notes arguments: '' and ' ok '
NotesArgs == {<< >>, <<" ", "o", "k", " ">>}

Max(a, b) == IF a >= b THEN a ELSE b

----------------------------------------------------------------------------
(* Result messages *)

InvalidUser == "User email is required"
AlreadyPunchedIn == "You have already punched in today"
PunchInOk == "Punched in successfully"
PunchInPersistenceFailure == "Failed to record punch in. Please try again."
NoPunchInFound == "No punch in record found for today"
AlreadyPunchedOut == "You have already punched out today"
PunchInMissing == "Please punch in first"
PunchOutOk == "Punched out successfully"
PunchOutPersistenceFailure == "Failed to record punch out. Please try again."

----------------------------------------------------------------------------
(* TimeMath *)

\* toLocaleTimeString('en-US', {hour12: false}) of a clock reading: 'HH:MM:SS'
FormatTime(sec) ==
    <<sec \div 3600, (sec % 3600) \div 60, sec % 60>>

getCurrentTime == FormatTime(now)

\* Fault: the date is taken once, when the handler is constructed
getCurrentDate_AtConstruction ==
    CHOOSE d \in 1..MaxDate : \A e \in 1..MaxDate : d <= e

getCurrentDate == today

\* new Date().toISOString(): the instant of the same clock reading
isoNow == <<today, now>>

\* new Date(`2000-01-01 ${t}`): seconds since that day's midnight
ParseTime(t) == t[1] * 3600 + t[2] * 60 + t[3]

\* Fault: the difference is not clamped at zero
calculateHours_Unclamped(startTime, endTime) ==
    ParseTime(endTime) - ParseTime(startTime)

\* Math.max(0, (end - start) / (1000 * 60 * 60)), kept as 3600 * hours
calculateHours(startTime, endTime) ==
    Max(0, ParseTime(endTime) - ParseTime(startTime))

\* The characters String.prototype.trim strips, of those used here
WhiteSpace == {" ", "\t", "\n", "\r"}

\* String.prototype.trim on a tuple of characters
RECURSIVE TrimLeft(_)
TrimLeft(s) ==
    IF s # << >> /\ Head(s) \in WhiteSpace THEN TrimLeft(Tail(s)) ELSE s

RECURSIVE TrimRight(_)
TrimRight(s) ==
    IF s # << >> /\ s[Len(s)] \in WhiteSpace
    THEN TrimRight(SubSeq(s, 1, Len(s) - 1))
    ELSE s

Trim(s) == TrimRight(TrimLeft(s))

----------------------------------------------------------------------------
(* DataManager *)

\* JSON.parse(localStorage.getItem(ATTENDANCE)) || {}, {} when that throws
getAttendanceRecords(readOk) == IF readOk THEN store ELSE EmptyMap

\* Fault: the write merges, keeping a user's entry that is already stored
setAttendanceRecords_KeepsExisting(records, writeOk) ==
    IF writeOk
    THEN [u \in DOMAIN records |->
              IF u \in DOMAIN store THEN store[u] ELSE records[u]]
    ELSE store

\* Fault: the mapping the engine mutated is the stored one, so a write
\* that fails still leaves the update behind
setAttendanceRecords_Shared(records, writeOk) == records

\* localStorage.setItem(ATTENDANCE, JSON.stringify(records)) in try/catch:
\* the item afterwards
setAttendanceRecords(records, writeOk) == IF writeOk THEN records ELSE store

\* importData(data) with data.attendance given: the item afterwards
importData(attendance, writeOk) == setAttendanceRecords(attendance, writeOk)

----------------------------------------------------------------------------
(* Mapping helpers: object property reads and writes *)

Has(m, k) == k \in DOMAIN m

\* Fault: the mapping is rebuilt from the one key written
Put_OnlyKey(m, k, v) == [x \in {k} |-> v]

\* m[k] = v on a JS object
Put(m, k, v) == [x \in DOMAIN m \cup {k} |-> IF x = k THEN v ELSE m[x]]

\* records[userEmail] && records[userEmail][date] is a record
HasRecord(records, userEmail, date) ==
    Has(records, userEmail) /\ Has(records[userEmail], date)

----------------------------------------------------------------------------
(* AttendanceHandler: lookups *)

\* Fault: the user's most recent record is returned, whatever its date
getAttendanceRecord_AnyDate(userEmail, readOk) ==
    LET records == getAttendanceRecords(readOk)
    IN  IF Has(records, userEmail) /\ DOMAIN records[userEmail] # {}
        THEN LET latest == CHOOSE d \in DOMAIN records[userEmail] :
                               \A e \in DOMAIN records[userEmail] : e <= d
             IN  records[userEmail][latest]
        ELSE NULL

\* getAttendanceRecord(userEmail): today's record, or NULL (null/undefined)
getAttendanceRecord(userEmail, readOk) ==
    LET records == getAttendanceRecords(readOk)
    IN  IF HasRecord(records, userEmail, getCurrentDate)
        THEN records[userEmail][getCurrentDate]
        ELSE NULL

\* Fault: a record without punchIn blocks punching in
getAttendanceStatus_UnknownBlocks(userEmail, readOk) ==
    LET todayRecord == getAttendanceRecord(userEmail, readOk)
    IN  IF ~Truthy(todayRecord)
        THEN [status |-> "not_punched_in", canPunchIn |-> TRUE,
              canPunchOut |-> FALSE, workingHours |-> 0]
        ELSE IF Truthy(todayRecord.punchIn) /\ ~Truthy(todayRecord.punchOut)
        THEN [status |-> "punched_in", canPunchIn |-> FALSE,
              canPunchOut |-> TRUE,
              workingHours |->
                  calculateHours(todayRecord.punchIn, getCurrentTime)]
        ELSE IF Truthy(todayRecord.punchIn) /\ Truthy(todayRecord.punchOut)
        THEN [status |-> "completed", canPunchIn |-> FALSE,
              canPunchOut |-> FALSE,
              workingHours |-> todayRecord.workingHours]
        ELSE [status |-> "unknown", canPunchIn |-> FALSE,
              canPunchOut |-> FALSE, workingHours |-> 0]

\* getAttendanceStatus(userEmail)
getAttendanceStatus(userEmail, readOk) ==
    LET todayRecord == getAttendanceRecord(userEmail, readOk)
    IN  IF ~Truthy(todayRecord)
        THEN [status |-> "not_punched_in", canPunchIn |-> TRUE,
              canPunchOut |-> FALSE, workingHours |-> 0]
        ELSE IF Truthy(todayRecord.punchIn) /\ ~Truthy(todayRecord.punchOut)
        THEN [status |-> "punched_in", canPunchIn |-> FALSE,
              canPunchOut |-> TRUE,
              workingHours |->
                  calculateHours(todayRecord.punchIn, getCurrentTime)]
        ELSE IF Truthy(todayRecord.punchIn) /\ Truthy(todayRecord.punchOut)
        THEN [status |-> "completed", canPunchIn |-> FALSE,
              canPunchOut |-> FALSE,
              workingHours |-> todayRecord.workingHours]
        ELSE [status |-> "unknown", canPunchIn |-> TRUE,
              canPunchOut |-> FALSE, workingHours |-> 0]

----------------------------------------------------------------------------
(* AttendanceHandler.punchIn *)

\* Fault: the guard tests punchOut instead of punchIn
alreadyPunchedIn_TestsPunchOut(records, userEmail) ==
    /\ Has(records[userEmail], getCurrentDate)
    /\ Truthy(records[userEmail][getCurrentDate].punchOut)

\* Fault: the guard only rejects while the record is Open
alreadyPunchedIn_OpenOnly(records, userEmail) ==
    /\ Has(records[userEmail], getCurrentDate)
    /\ Truthy(records[userEmail][getCurrentDate].punchIn)
    /\ ~Truthy(records[userEmail][getCurrentDate].punchOut)

\* records[userEmail][today] && records[userEmail][today].punchIn
alreadyPunchedIn(records, userEmail) ==
    /\ Has(records[userEmail], getCurrentDate)
    /\ Truthy(records[userEmail][getCurrentDate].punchIn)

\* Fault: the current time is stored as punchOut instead of punchIn
NewRecord_AsPunchOut ==
    [date |-> getCurrentDate,
     punchIn |-> NULL,
     punchInTimestamp |-> NULL,
     punchOut |-> getCurrentTime,
     punchOutTimestamp |-> isoNow,
     workingHours |-> 0,
     notes |-> << >>]

\* The record punchIn creates
NewRecord ==
    [date |-> getCurrentDate,
     punchIn |-> getCurrentTime,
     punchInTimestamp |-> isoNow,
     punchOut |-> NULL,
     punchOutTimestamp |-> NULL,
     workingHours |-> 0,
     notes |-> << >>]

\* records[userEmail][today] = {...}, on the mapping the call has read
recordPunchIn(records, userEmail) ==
    Put(records, userEmail,
        Put(records[userEmail], getCurrentDate, NewRecord))

\* punchIn(userEmail): the item afterwards, the returned object, and the
\* number of store reads and store writes the call made
punchIn(userEmail, readOk, writeOk) ==
    IF ~UserGiven(userEmail)
    THEN [item |-> store, success |-> FALSE, message |-> InvalidUser,
          reads |-> 0, writes |-> 0]
    ELSE
    LET records == getAttendanceRecords(readOk)
        withUser == IF Has(records, userEmail)
                    THEN records
                    ELSE Put(records, userEmail, EmptyMap)
    IN  IF alreadyPunchedIn(withUser, userEmail)
        THEN [item |-> store, success |-> FALSE,
              message |-> AlreadyPunchedIn, reads |-> 1, writes |-> 0]
        ELSE
        LET updated == recordPunchIn(withUser, userEmail)
        IN  [item |-> setAttendanceRecords(updated, writeOk),
             success |-> writeOk,
             message |-> IF writeOk THEN PunchInOk
                         ELSE PunchInPersistenceFailure,
             reads |-> 1, writes |-> 1]

----------------------------------------------------------------------------
(* AttendanceHandler.punchOut *)

\* !records[userEmail] || !records[userEmail][today]
noRecordToday(records, userEmail) ==
    ~HasRecord(records, userEmail, getCurrentDate)

\* Fault: closure is inferred from the hours worked
alreadyPunchedOut_ByHours(todayRecord) == todayRecord.workingHours > 0

\* todayRecord.punchOut
alreadyPunchedOut(todayRecord) == Truthy(todayRecord.punchOut)

\* !todayRecord.punchIn
punchInMissing(todayRecord) == ~Truthy(todayRecord.punchIn)

\* Fault: the punch-out also overwrites punchIn
ClosedRecord_ResetsPunchIn(todayRecord, notes) ==
    [todayRecord EXCEPT
        !.punchIn = getCurrentTime,
        !.punchOut = getCurrentTime,
        !.punchOutTimestamp = isoNow,
        !.workingHours = calculateHours(todayRecord.punchIn, getCurrentTime),
        !.notes = Trim(notes)]

\* todayRecord after the punch-out assignments
ClosedRecord(todayRecord, notes) ==
    [todayRecord EXCEPT
        !.punchOut = getCurrentTime,
        !.punchOutTimestamp = isoNow,
        !.workingHours = calculateHours(todayRecord.punchIn, getCurrentTime),
        !.notes = Trim(notes)]

\* The four assignments to todayRecord, on the mapping the call has read
recordPunchOut(records, userEmail, notes) ==
    Put(records, userEmail,
        Put(records[userEmail], getCurrentDate,
            ClosedRecord(records[userEmail][getCurrentDate], notes)))

\* punchOut(userEmail, notes)
punchOut(userEmail, notes, readOk, writeOk) ==
    IF ~UserGiven(userEmail)
    THEN [item |-> store, success |-> FALSE, message |-> InvalidUser,
          reads |-> 0, writes |-> 0]
    ELSE
    LET records == getAttendanceRecords(readOk)
    IN  IF noRecordToday(records, userEmail)
        THEN [item |-> store, success |-> FALSE,
              message |-> NoPunchInFound, reads |-> 1, writes |-> 0]
        ELSE
        LET todayRecord == records[userEmail][getCurrentDate]
        IN  IF alreadyPunchedOut(todayRecord)
            THEN [item |-> store, success |-> FALSE,
                  message |-> AlreadyPunchedOut, reads |-> 1, writes |-> 0]
            ELSE IF punchInMissing(todayRecord)
            THEN [item |-> store, success |-> FALSE,
                  message |-> PunchInMissing, reads |-> 1, writes |-> 0]
            ELSE
            LET updated == recordPunchOut(records, userEmail, notes)
            IN  [item |-> setAttendanceRecords(updated, writeOk),
                 success |-> writeOk,
                 message |-> IF writeOk THEN PunchOutOk
                             ELSE PunchOutPersistenceFailure,
                 reads |-> 1, writes |-> 1]

----------------------------------------------------------------------------
(* Calendar: what the Date object computes.  An instant is a number of     *)
(* minutes since 1970-01-01T00:00Z; the host's time zone is its offset tz  *)
(* from UTC in minutes (local = UTC + tz); a 'YYYY-MM-DD' string is the    *)
(* triple <<YYYY, MM, DD>>.                                                *)

\* Time zones of the host: UTC-05:00, UTC and UTC+05:30
TimeZones == {0 - 300, 0, 330}

\* Day number (days since 1970-01-01) of the civil date y-m-d
DaysFromCivil(y, m, d) ==
    LET yy == IF m <= 2 THEN y - 1 ELSE y
        era == yy \div 400
        yoe == yy - era * 400
        mp == IF m > 2 THEN m - 3 ELSE m + 9
        doy == (153 * mp + 2) \div 5 + d - 1
        doe == yoe * 365 + yoe \div 4 - yoe \div 100 + doy
    IN  era * 146097 + doe - 719468

\* Civil date <<y, m, d>> of a day number
CivilFromDays(n) ==
    LET z == n + 719468
        era == z \div 146097
        doe == z - era * 146097
        yoe == (doe - doe \div 1460 + doe \div 36524 - doe \div 146096)
                   \div 365
        doy == doe - (365 * yoe + yoe \div 4 - yoe \div 100)
        mp == (5 * doy + 2) \div 153
        d == doy - (153 * mp + 2) \div 5 + 1
        m == IF mp < 10 THEN mp + 3 ELSE mp - 9
        y == yoe + era * 400
    IN  <<IF m <= 2 THEN y + 1 ELSE y, m, d>>

\* The 'YYYY-MM-DD' key under which the record of day number n is stored
DateKey(n) == CivilFromDays(n)

\* new Date('YYYY-MM-DD'): a date-only string is midnight UTC
ParseDateString(str) == DaysFromCivil(str[1], str[2], str[3]) * 1440

\* new Date(year, monthIndex, day): local midnight; monthIndex and day may
\* overflow (day 0 is the last day of the month before)
LocalDate(year, monthIndex, day, tz) ==
    (DaysFromCivil(year + monthIndex \div 12, (monthIndex % 12) + 1, 1)
         + day - 1) * 1440 - tz

\* The local day number of an instant
LocalDay(instant, tz) == (instant + tz) \div 1440

\* date.toLocaleDateString('en-CA'): the local date as 'YYYY-MM-DD'
toLocaleDateString(instant, tz) == CivilFromDays(LocalDay(instant, tz))

\* date.getDate(): the local day of the month
getDate(instant, tz) == CivilFromDays(LocalDay(instant, tz))[3]

\* date.setDate(day): the same local month and time of day, on that day
setDate(instant, day, tz) ==
    LET civil == CivilFromDays(LocalDay(instant, tz))
    IN  LocalDate(civil[1], civil[2] - 1, day, tz)
            + ((instant + tz) % 1440)

\* date.getDay(): 0 is Sunday .. 6 is Saturday; 1970-01-01 was a Thursday
getDay(instant, tz) == (LocalDay(instant, tz) + 4) % 7

\* getFormattedDate(dateStr): the weekday and the local date that
\* toLocaleDateString('en-US', {weekday, year, month, day}) spells out
getFormattedDate(dateStr, tz) ==
    <<getDay(ParseDateString(dateStr), tz),
      toLocaleDateString(ParseDateString(dateStr), tz)>>

----------------------------------------------------------------------------
(* AttendanceHandler: history *)

\* The durations below 24 hours, in seconds, for which the double
\* (hours - wholeHours) * 60 falls below the half minute that the exact
\* product is: hours = milliseconds / 3600000 is the nearest double, the
\* subtraction is exact and the product is rounded once more.  All of them
\* are an odd number of half minutes; 1:00:30 is the first
HalfMinutesBelow ==
    {3630, 3690, 3870, 3930, 4110, 4350, 4530, 4590, 4770, 4830, 5010,
     5250, 5490, 5730, 6150, 6390, 6630, 7050, 7230, 7290, 7350, 7410,
     7710, 7770, 7830, 8130, 8190, 8250, 8310, 8610, 8670, 8730, 9090,
     9150, 9210, 9570, 9630, 9990, 10050, 10110, 10470, 10530, 10830,
     10890, 10950, 11010, 11310, 11370, 11430, 11730, 11790, 11850, 11910,
     12210, 12270, 12330, 12690, 12750, 12810, 13170, 13230, 13590, 13650,
     13710, 14070, 14130, 14910, 14970, 15030, 15090, 15150, 15210, 15270,
     15810, 15870, 15930, 15990, 16050, 16110, 16170, 16770, 16830, 16890,
     16950, 17010, 17070, 17670, 17730, 17790, 17850, 17910, 17970, 18510,
     18570, 18630, 18690, 18750, 18810, 18870, 19410, 19470, 19530, 19590,
     19650, 19710, 19770, 20370, 20430, 20490, 20550, 20610, 20670, 21270,
     21330, 21390, 21450, 21510, 21570, 22110, 22170, 22230, 22290, 22350,
     22410, 22470, 23010, 23070, 23130, 23190, 23250, 23310, 23370, 23970,
     24030, 24090, 24150, 24210, 24270, 24870, 24930, 24990, 25050, 25110,
     25170, 25710, 25770, 25830, 25890, 25950, 26010, 26070, 26610, 26670,
     26730, 26790, 26850, 26910, 26970, 27570, 27630, 27690, 27750, 27810,
     27870, 28470, 28530, 28590, 28650, 28710, 28770, 28830, 28950, 29070,
     29190, 29370, 29490, 29610, 29730, 29850, 29970, 30090, 30270, 30390,
     30510, 30630, 30750, 30870, 30990, 31170, 31290, 31410, 31530, 31650,
     31770, 31890, 32070, 32190, 32310, 32430, 32550, 32670, 32790, 32970,
     33090, 33210, 33330, 33450, 33570, 33690, 33870, 33990, 34110, 34230,
     34350, 34470, 34590, 34770, 34890, 35010, 35130, 35250, 35370, 35490,
     35670, 35790, 35910, 36030, 36150, 36270, 36390, 36570, 36690, 36810,
     36930, 37050, 37170, 37290, 37470, 37590, 37710, 37830, 37950, 38070,
     38190, 38370, 38490, 38610, 38730, 38850, 38970, 39090, 39270, 39390,
     39510, 39630, 39750, 39870, 39990, 40170, 40290, 40410, 40530, 40650,
     40770, 40890, 41070, 41190, 41310, 41430, 41550, 41670, 41790, 41970,
     42090, 42210, 42330, 42450, 42570, 42690, 42870, 42990, 43110, 43230,
     43350, 43470, 43590, 43770, 43890, 44010, 44130, 44250, 44370, 44490,
     44670, 44790, 44910, 45030, 45150, 45270, 45390, 45570, 45690, 45810,
     45930, 46050, 46170, 46290, 46470, 46590, 46710, 46830, 46950, 47070,
     47190, 47370, 47490, 47610, 47730, 47850, 47970, 48090, 48270, 48390,
     48510, 48630, 48750, 48870, 48990, 49170, 49290, 49410, 49530, 49650,
     49770, 49890, 50070, 50190, 50310, 50430, 50550, 50670, 50790, 50970,
     51090, 51210, 51330, 51450, 51570, 51690, 51870, 51990, 52110, 52230,
     52350, 52470, 52590, 52770, 52890, 53010, 53130, 53250, 53370, 53490,
     53670, 53790, 53910, 54030, 54150, 54270, 54390, 54570, 54690, 54810,
     54930, 55050, 55170, 55290, 55470, 55590, 55710, 55830, 55950, 56070,
     56190, 56370, 56490, 56610, 56730, 56850, 56970, 57090, 57270, 57390,
     57510, 57630, 57690, 57870, 57930, 58110, 58290, 58350, 58530, 58590,
     58770, 58830, 59010, 59190, 59250, 59430, 59490, 59670, 59730, 59910,
     60090, 60150, 60330, 60390, 60570, 60630, 60810, 60990, 61050, 61230,
     61290, 61470, 61530, 61710, 61890, 61950, 62130, 62190, 62370, 62430,
     62610, 62790, 62850, 63030, 63090, 63270, 63330, 63510, 63690, 63750,
     63930, 63990, 64170, 64230, 64410, 64590, 64650, 64830, 64890, 65070,
     65130, 65310, 65490, 65550, 65730, 65790, 65970, 66030, 66210, 66390,
     66450, 66630, 66690, 66870, 66930, 67110, 67290, 67350, 67530, 67590,
     67770, 67830, 68010, 68190, 68250, 68430, 68490, 68670, 68730, 68910,
     69090, 69150, 69330, 69390, 69570, 69630, 69810, 69990, 70050, 70230,
     70290, 70470, 70530, 70710, 70890, 70950, 71130, 71190, 71370, 71430,
     71610, 71790, 71850, 72030, 72090, 72270, 72330, 72510, 72690, 72750,
     72930, 72990, 73170, 73230, 73410, 73590, 73650, 73830, 73890, 74070,
     74130, 74310, 74490, 74550, 74730, 74790, 74970, 75030, 75210, 75390,
     75450, 75630, 75690, 75870, 75930, 76110, 76290, 76350, 76530, 76590,
     76770, 76830, 77010, 77190, 77250, 77430, 77490, 77670, 77730, 77910,
     78090, 78150, 78330, 78390, 78570, 78630, 78810, 78990, 79050, 79230,
     79290, 79470, 79530, 79710, 79890, 79950, 80130, 80190, 80370, 80430,
     80610, 80790, 80850, 81030, 81090, 81270, 81330, 81510, 81690, 81750,
     81930, 81990, 82170, 82230, 82410, 82590, 82650, 82830, 82890, 83070,
     83130, 83310, 83490, 83550, 83730, 83790, 83970, 84030, 84210, 84390,
     84450, 84630, 84690, 84870, 84930, 85110, 85290, 85350, 85530, 85590,
     85770, 85830, 86010, 86190, 86250}

\* Math.round((hours - wholeHours) * 60), hours given as 3600 * hours:
\* half minutes go up, unless the double product is below the half
roundedMinutes(hours) ==
    IF hours \in HalfMinutesBelow THEN (hours % 3600) \div 60
    ELSE ((hours % 3600) + 30) \div 60

\* formatHours(hours), hours given as 3600 * hours: the wording used and the
\* two numbers put into it (a total of 24 hours or more is a whole number
\* of minutes in the stores summarised here)
formatHours(hours) ==
    LET wholeHours == hours \div 3600
        minutes == roundedMinutes(hours)
    IN  IF wholeHours = 0
        THEN [form |-> "M minutes", hours |-> wholeHours,
              minutes |-> minutes]
        ELSE IF minutes = 0
        THEN [form |-> IF wholeHours = 1 THEN "H hour" ELSE "H hours",
              hours |-> wholeHours, minutes |-> minutes]
        ELSE [form |-> "Hh Mm", hours |-> wholeHours, minutes |-> minutes]

\* Fault: the Full Day test comes before the Short Day test of 8, not 4
getRecordStatus_ShortBelowEight(record) ==
    IF ~Truthy(record.punchIn) THEN "No Punch In"
    ELSE IF Truthy(record.punchIn) /\ ~Truthy(record.punchOut)
    THEN "Missing Punch Out"
    ELSE IF record.workingHours < 8 * 3600 THEN "Short Day"
    ELSE IF record.workingHours >= 8 * 3600 THEN "Full Day"
    ELSE "Partial Day"

\* getRecordStatus(record)
getRecordStatus(record) ==
    IF ~Truthy(record.punchIn) THEN "No Punch In"
    ELSE IF Truthy(record.punchIn) /\ ~Truthy(record.punchOut)
    THEN "Missing Punch Out"
    ELSE IF record.workingHours < 4 * 3600 THEN "Short Day"
    ELSE IF record.workingHours >= 8 * 3600 THEN "Full Day"
    ELSE "Partial Day"

\* Fault: the end of the range is excluded
inRange_EndExcluded(recordDate, start, end) ==
    recordDate >= start /\ recordDate < end

\* recordDate >= start && recordDate <= end
inRange(recordDate, start, end) == recordDate >= start /\ recordDate <= end

\* The entry pushed for the record stored under day number key
HistoryEntry(key, record, tz) ==
    [date |-> DateKey(key),
     formattedDate |-> getFormattedDate(DateKey(key), tz),
     punchIn |-> record.punchIn,
     punchOut |-> record.punchOut,
     workingHours |-> record.workingHours,
     formattedHours |-> formatHours(record.workingHours),
     notes |-> record.notes,
     status |-> getRecordStatus(record)]

\* The sort comparator: new Date(b.date) - new Date(a.date), for the entries
\* of dates a and b
newestFirst(a, b) == ParseDateString(b) - ParseDateString(a)

\* history.sort(comparator) of the entries of the keys in S: no two keys
\* compare equal, so the order does not depend on the order of insertion
RECURSIVE SortedKeys(_)
SortedKeys(S) ==
    IF S = {} THEN << >>
    ELSE LET first == CHOOSE k \in S :
                 \A j \in S \ {k} : newestFirst(DateKey(k), DateKey(j)) < 0
         IN  <<first>> \o SortedKeys(S \ {first})

\* getAttendanceHistory(userEmail, startDate, endDate)
getAttendanceHistory(userEmail, startDate, endDate, tz, readOk) ==
    LET records == getAttendanceRecords(readOk)
        userRecords == IF Has(records, userEmail) THEN records[userEmail]
                       ELSE EmptyMap
        start == ParseDateString(startDate)
        end == ParseDateString(endDate)
        kept == {k \in DOMAIN userRecords :
                     inRange(ParseDateString(DateKey(k)), start, end)}
        order == SortedKeys(kept)
    IN  [i \in 1..Len(order) |->
             HistoryEntry(order[i], userRecords[order[i]], tz)]

----------------------------------------------------------------------------
(* AttendanceHandler: summaries *)

NoTotals ==
    [totalHours |-> 0, daysWorked |-> 0, daysPresent |-> 0, fullDays |-> 0]

\* Fault: every day present adds to the days worked
Tally_CountsZeroHourDays(totals, record) ==
    IF Truthy(record.punchIn)
    THEN [totalHours |-> totals.totalHours + record.workingHours,
          daysWorked |-> totals.daysWorked + 1,
          daysPresent |-> totals.daysPresent + 1,
          fullDays |-> totals.fullDays
                           + IF record.workingHours >= 8 * 3600 THEN 1 ELSE 0]
    ELSE totals

\* The body of history.forEach in getMonthlySummary (getWeeklySummary has
\* the same body without fullDays)
Tally(totals, record) ==
    IF Truthy(record.punchIn)
    THEN IF record.workingHours > 0
         THEN [totalHours |-> totals.totalHours + record.workingHours,
               daysWorked |-> totals.daysWorked + 1,
               daysPresent |-> totals.daysPresent + 1,
               fullDays |-> totals.fullDays
                            + IF record.workingHours >= 8 * 3600 THEN 1 ELSE 0]
         ELSE [totals EXCEPT !.daysPresent = @ + 1]
    ELSE totals

\* history.forEach(...) over the first n entries
RECURSIVE Aggregate(_, _)
Aggregate(history, n) ==
    IF n = 0 THEN NoTotals
    ELSE Tally(Aggregate(history, n - 1), history[n])

\* totalHours / daysWorked as the fraction <<numerator, denominator>>
averageHours(totals) ==
    IF totals.daysWorked > 0 THEN <<totals.totalHours, totals.daysWorked>>
    ELSE <<0, 1>>

\* getWeeklySummary(userEmail, weekStartDate)
getWeeklySummary(userEmail, weekStartDate, tz, readOk) ==
    LET startDate == ParseDateString(weekStartDate)
        endDate == setDate(startDate, getDate(startDate, tz) + 6, tz)
        history == getAttendanceHistory(userEmail,
                       toLocaleDateString(startDate, tz),
                       toLocaleDateString(endDate, tz), tz, readOk)
        totals == Aggregate(history, Len(history))
    IN  [weekStart |-> weekStartDate,
         weekEnd |-> toLocaleDateString(endDate, tz),
         totalHours |-> totals.totalHours,
         formattedTotalHours |-> formatHours(totals.totalHours),
         averageHours |-> averageHours(totals),
         daysWorked |-> totals.daysWorked,
         daysPresent |-> totals.daysPresent,
         records |-> history]

\* Fault: the loop stops before the last day of the month
lastDayReached_Early(date, endDate) == date >= endDate

\* The loop test of getWorkingDaysInMonth fails: !(date <= endDate)
lastDayReached(date, endDate) == date > endDate

\* for (date = startDate; date <= endDate; date.setDate(date.getDate() + 1))
RECURSIVE CountWorkingDays(_, _, _)
CountWorkingDays(date, endDate, tz) ==
    IF lastDayReached(date, endDate) THEN 0
    ELSE (IF getDay(date, tz) # 0 /\ getDay(date, tz) # 6 THEN 1 ELSE 0)
         + CountWorkingDays(setDate(date, getDate(date, tz) + 1, tz),
                            endDate, tz)

\* getWorkingDaysInMonth(year, month)
getWorkingDaysInMonth(year, month, tz) ==
    CountWorkingDays(LocalDate(year, month - 1, 1, tz),
                     LocalDate(year, month, 0, tz), tz)

\* getMonthlySummary(userEmail, year, month)
getMonthlySummary(userEmail, year, month, tz, readOk) ==
    LET startDate == LocalDate(year, month - 1, 1, tz)
        endDate == LocalDate(year, month, 0, tz)
        history == getAttendanceHistory(userEmail,
                       toLocaleDateString(startDate, tz),
                       toLocaleDateString(endDate, tz), tz, readOk)
        totals == Aggregate(history, Len(history))
    IN  [month |-> month,
         year |-> year,
         totalHours |-> totals.totalHours,
         formattedTotalHours |-> formatHours(totals.totalHours),
         averageHours |-> averageHours(totals),
         daysWorked |-> totals.daysWorked,
         daysPresent |-> totals.daysPresent,
         fullDays |-> totals.fullDays,
         workingDaysInMonth |-> getWorkingDaysInMonth(year, month, tz),
         records |-> history]

----------------------------------------------------------------------------
(* AttendanceHandler: export.  A text is the sequence of its characters;   *)
(* a date, a time, a weekday and a formatted duration are each written as  *)
(* one character, since none of them contains a quote, a comma or a line   *)
(* break.                                                                  *)

\* The header line, written as one character, before its line break
CsvHeader == "Date,Day,Punch In,Punch Out,Working Hours,Status,Notes"

\* "${value}"
Quoted(text) == <<"\"">> \o text \o <<"\"">>

\* value || ''
OrEmpty(v) == IF Truthy(v) THEN <<ToString(v)>> ELSE << >>

\* The line appended for one history entry
CsvRow(record, tz) ==
    LET day == getDay(ParseDateString(record.date), tz)
    IN  Quoted(<<ToString(record.date)>>) \o <<",">>
        \o Quoted(<<ToString(day)>>) \o <<",">>
        \o Quoted(OrEmpty(record.punchIn)) \o <<",">>
        \o Quoted(OrEmpty(record.punchOut)) \o <<",">>
        \o Quoted(<<ToString(record.formattedHours)>>) \o <<",">>
        \o Quoted(<<record.status>>) \o <<",">>
        \o Quoted(record.notes) \o <<"\n">>

\* history.forEach(record => csv += ...) over the first n entries
RECURSIVE CsvRows(_, _, _)
CsvRows(history, n, tz) ==
    IF n = 0 THEN << >>
    ELSE CsvRows(history, n - 1, tz) \o CsvRow(history[n], tz)

\* exportToCSV(userEmail, startDate, endDate)
exportToCSV(userEmail, startDate, endDate, tz, readOk) ==
    LET history ==
            getAttendanceHistory(userEmail, startDate, endDate, tz, readOk)
    IN  <<CsvHeader, "\n">> \o CsvRows(history, Len(history), tz)

\* Fault: a query creates the user's entry and saves the mapping
AfterQuery_SavesUserEntry(records, userEmail) ==
    IF Has(records, userEmail) THEN records
    ELSE Put(records, userEmail, EmptyMap)

\* The item after a query that read records: getAttendanceStatus,
\* getAttendanceHistory, the summaries and exportToCSV assign nothing in the
\* mapping they read and never call setAttendanceRecords
AfterQuery(records, userEmail) == store

----------------------------------------------------------------------------
(* The state machine *)

\* What a step leaves in `last`
Called(op, userEmail, r, readOk, writeOk) ==
    [op |-> op, user |-> userEmail, success |-> r.success,
     message |-> r.message, reads |-> r.reads, writes |-> r.writes,
     readFailed |-> r.reads = 1 /\ ~readOk,
     writeFailed |-> r.writes = 1 /\ ~writeOk]

\* Two callers (tabs, sessions) share the store; none has a call under way
Callers == {"c1", "c2"}

Idle ==
    [pc |-> "idle", op |-> "", user |-> "", records |-> NULL,
     punchIn |-> NULL, punchOut |-> NULL, success |-> FALSE, message |-> ""]

NoCalls == [c \in Callers |-> Idle]

ClockMoved ==
    [op |-> "clock", user |-> "", success |-> TRUE, message |-> "",
     reads |-> 0, writes |-> 0, writeFailed |-> FALSE]

\* new DataManager(): initializeStorage finds getAttendanceRecords() = {}
\* (truthy) and leaves the item unset, which reads back as {}
Init ==
    /\ store = EmptyMap
    /\ today = 1
    /\ now \in ClockReadings
    /\ pre = EmptyMap
    /\ last = ClockMoved
    /\ steps = 0
    /\ inflight = NoCalls

\* One more step, while the model's horizon allows
Step ==
    /\ steps < MaxSteps
    /\ steps' = steps + 1
    /\ pre' = store

PunchIn(userEmail, readOk, writeOk) ==
    LET r == punchIn(userEmail, readOk, writeOk)
    IN  /\ store' = r.item
        /\ Step
        /\ last' = Called("punchIn", userEmail, r, readOk, writeOk)
        /\ UNCHANGED <<today, now, inflight>>

PunchOut(userEmail, notes, readOk, writeOk) ==
    LET r == punchOut(userEmail, notes, readOk, writeOk)
    IN  /\ store' = r.item
        /\ Step
        /\ last' = Called("punchOut", userEmail, r, readOk, writeOk)
        /\ UNCHANGED <<today, now, inflight>>

GetStatus(userEmail, readOk) ==
    LET r == getAttendanceStatus(userEmail, readOk)
    IN  /\ Step
        /\ last' = [op |-> "getStatus", user |-> userEmail, success |-> TRUE,
                    message |-> r.status, reads |-> 1, writes |-> 0,
                    writeFailed |-> FALSE, workingHours |-> r.workingHours,
                    canPunchIn |-> r.canPunchIn,
                    canPunchOut |-> r.canPunchOut]
        /\ store' = AfterQuery(getAttendanceRecords(readOk), userEmail)
        /\ UNCHANGED <<today, now, inflight>>

\* The clock advances within the day
Tick ==
    /\ \E t \in ClockReadings : t > now /\ now' = t
    /\ Step
    /\ last' = ClockMoved
    /\ UNCHANGED <<store, today, inflight>>

\* The system clock is set back within the day
ClockSetBack ==
    /\ \E t \in ClockReadings : t < now /\ now' = t
    /\ Step
    /\ last' = ClockMoved
    /\ UNCHANGED <<store, today, inflight>>

\* Midnight passes
NextDay ==
    /\ today < MaxDate
    /\ today' = today + 1
    /\ now' \in ClockReadings
    /\ Step
    /\ last' = ClockMoved
    /\ UNCHANGED <<store, inflight>>

\* A backup is imported: any attendance mapping may arrive, also records
\* that the punch operations never write
ImportedRecords ==
    {[date |-> 1, punchIn |-> pin, punchInTimestamp |-> NULL,
      punchOut |-> pout, punchOutTimestamp |-> NULL,
      workingHours |-> IF pin # NULL /\ pout # NULL THEN 9000 ELSE 0,
      notes |-> << >>] :
        pin \in {NULL, FormatTime(0)}, pout \in {NULL, FormatTime(9000)}}

ImportedMappings ==
    {EmptyMap} \cup
    {Put(EmptyMap, u, Put(EmptyMap, d, [r EXCEPT !.date = d])) :
        u \in Users, d \in Dates, r \in ImportedRecords}

ImportData(attendance, writeOk) ==
    /\ store' = importData(attendance, writeOk)
    /\ Step
    /\ last' = [op |-> "importData", user |-> "", success |-> TRUE,
                message |-> "", reads |-> 0, writes |-> 1,
                writeFailed |-> ~writeOk]
    /\ UNCHANGED <<today, now, inflight>>

Next ==
    \/ \E u \in UserArgs, w \in BOOLEAN : PunchIn(u, TRUE, w)
    \/ \E u \in UserArgs, n \in NotesArgs, w \in BOOLEAN :
           PunchOut(u, n, TRUE, w)
    \/ \E u \in UserArgs : GetStatus(u, TRUE)
    \/ Tick
    \/ ClockSetBack
    \/ NextDay

Spec == Init /\ [][Next]_vars

\* punchIn by caller c, up to the point where the mapping it read holds the
\* new record: the call returns at once when it is rejected
PunchInRead(c, userEmail) ==
    LET r == punchIn(userEmail, TRUE, TRUE)
        records == getAttendanceRecords(TRUE)
        withUser == IF Has(records, userEmail) THEN records
                    ELSE Put(records, userEmail, EmptyMap)
    IN  /\ inflight[c].pc = "idle"
        /\ Step
        /\ IF r.writes = 0
           THEN /\ inflight' = [inflight EXCEPT ![c] =
                                   [pc |-> "done", op |-> "punchIn",
                                    user |-> userEmail,
                                    records |-> NULL, punchIn |-> NULL,
                                    punchOut |-> NULL,
                                    success |-> r.success,
                                    message |-> r.message]]
                /\ last' = [op |-> "punchIn", user |-> userEmail,
                            success |-> r.success, message |-> r.message,
                            reads |-> r.reads, writes |-> 0,
                            writeFailed |-> FALSE, caller |-> c]
           ELSE /\ inflight' = [inflight EXCEPT ![c] =
                                   [pc |-> "write", op |-> "punchIn",
                                    user |-> userEmail,
                                    records |->
                                        recordPunchIn(withUser, userEmail),
                                    punchIn |-> getCurrentTime,
                                    punchOut |-> NULL,
                                    success |-> FALSE, message |-> ""]]
                /\ last' = [op |-> "punchIn.read", user |-> userEmail,
                            success |-> FALSE, message |-> "",
                            reads |-> 1, writes |-> 0,
                            writeFailed |-> FALSE, caller |-> c]
        /\ UNCHANGED <<store, today, now>>

\* The rest of that call: setAttendanceRecords(records) and the return
PunchInWrite(c, writeOk) ==
    /\ inflight[c].pc = "write"
    /\ inflight[c].op = "punchIn"
    /\ Step
    /\ store' = setAttendanceRecords(inflight[c].records, writeOk)
    /\ inflight' = [inflight EXCEPT ![c] =
                       [@ EXCEPT !.pc = "done", !.success = writeOk,
                                 !.message = IF writeOk THEN PunchInOk
                                             ELSE PunchInPersistenceFailure]]
    /\ last' = [op |-> "punchIn", user |-> inflight[c].user,
                success |-> writeOk,
                message |-> IF writeOk THEN PunchInOk
                            ELSE PunchInPersistenceFailure,
                reads |-> 0, writes |-> 1, writeFailed |-> ~writeOk,
                caller |-> c]
    /\ UNCHANGED <<today, now>>

\* Each caller makes one punchIn call, its read and its write being
\* separate steps, while the clock advances
NextRace ==
    \/ \E c \in Callers, u \in Users : PunchInRead(c, u)
    \/ \E c \in Callers, w \in BOOLEAN : PunchInWrite(c, w)
    \/ Tick

SpecRace == Init /\ [][NextRace]_vars

\* The engine when a read of the item may fail (getItem or JSON.parse
\* throws, and getAttendanceRecords returns {}) while the item is intact
NextReadFault ==
    \/ \E u \in Users, rd \in BOOLEAN, w \in BOOLEAN : PunchIn(u, rd, w)
    \/ \E u \in Users, n \in NotesArgs, rd \in BOOLEAN, w \in BOOLEAN :
           PunchOut(u, n, rd, w)
    \/ Tick
    \/ NextDay

SpecReadFault == Init /\ [][NextReadFault]_vars

\* punchOut by caller c, up to the point where the mapping it read holds
\* the closed record: the call returns at once when it is rejected
PunchOutRead(c, userEmail, notes) ==
    LET r == punchOut(userEmail, notes, TRUE, TRUE)
    IN  /\ inflight[c].pc = "idle"
        /\ Step
        /\ IF r.writes = 0
           THEN /\ inflight' = [inflight EXCEPT ![c] =
                                   [pc |-> "done", op |-> "punchOut",
                                    user |-> userEmail,
                                    records |-> NULL, punchIn |-> NULL,
                                    punchOut |-> NULL,
                                    success |-> r.success,
                                    message |-> r.message]]
                /\ last' = [op |-> "punchOut", user |-> userEmail,
                            success |-> r.success, message |-> r.message,
                            reads |-> r.reads, writes |-> 0,
                            writeFailed |-> FALSE, caller |-> c]
           ELSE /\ inflight' = [inflight EXCEPT ![c] =
                                   [pc |-> "write", op |-> "punchOut",
                                    user |-> userEmail,
                                    records |->
                                        recordPunchOut(
                                            getAttendanceRecords(TRUE),
                                            userEmail, notes),
                                    punchIn |-> NULL,
                                    punchOut |-> getCurrentTime,
                                    success |-> FALSE, message |-> ""]]
                /\ last' = [op |-> "punchOut.read", user |-> userEmail,
                            success |-> FALSE, message |-> "",
                            reads |-> 1, writes |-> 0,
                            writeFailed |-> FALSE, caller |-> c]
        /\ UNCHANGED <<store, today, now>>

\* The rest of that call: setAttendanceRecords(records) and the return
PunchOutWrite(c, writeOk) ==
    /\ inflight[c].pc = "write"
    /\ inflight[c].op = "punchOut"
    /\ Step
    /\ store' = setAttendanceRecords(inflight[c].records, writeOk)
    /\ inflight' = [inflight EXCEPT ![c] =
                       [@ EXCEPT !.pc = "done", !.success = writeOk,
                                 !.message = IF writeOk THEN PunchOutOk
                                             ELSE PunchOutPersistenceFailure]]
    /\ last' = [op |-> "punchOut", user |-> inflight[c].user,
                success |-> writeOk,
                message |-> IF writeOk THEN PunchOutOk
                            ELSE PunchOutPersistenceFailure,
                reads |-> 0, writes |-> 1, writeFailed |-> ~writeOk,
                caller |-> c]
    /\ UNCHANGED <<today, now>>

\* Calls are serialized per user: each caller is the one session of one
\* user and makes one call at a time, while the calls of the two users
\* interleave between read and write.  The day starts with nobody punched
\* in, or with one or both users punched in at midnight
UserOf(c) == IF c = "c1" THEN "ann@sparrow.io" ELSE "bob@sparrow.io"

OpenAtMidnight(d) ==
    [date |-> d, punchIn |-> FormatTime(0), punchInTimestamp |-> <<d, 0>>,
     punchOut |-> NULL, punchOutTimestamp |-> NULL, workingHours |-> 0,
     notes |-> << >>]

SerialStores ==
    {[u \in U |-> Put(EmptyMap, 1, OpenAtMidnight(1))] : U \in SUBSET Users}

InitSerial ==
    /\ store \in SerialStores
    /\ today = 1
    /\ now \in ClockReadings
    /\ pre = store
    /\ last = ClockMoved
    /\ steps = 0
    /\ inflight = NoCalls

NextSerial ==
    \/ \E c \in Callers : PunchInRead(c, UserOf(c))
    \/ \E c \in Callers, w \in BOOLEAN : PunchInWrite(c, w)
    \/ \E c \in Callers, n \in NotesArgs : PunchOutRead(c, UserOf(c), n)
    \/ \E c \in Callers, w \in BOOLEAN : PunchOutWrite(c, w)
    \/ Tick

SpecSerial == InitSerial /\ [][NextSerial]_vars

\* The engine on whatever DataManager.importData has put in the store, on
\* any one day at any one clock reading
InitImport ==
    /\ store = EmptyMap
    /\ today \in Dates
    /\ now \in ClockReadings
    /\ pre = EmptyMap
    /\ last = ClockMoved
    /\ steps = 0
    /\ inflight = NoCalls

NextImport ==
    \/ \E m \in ImportedMappings, w \in BOOLEAN : ImportData(m, w)
    \/ \E u \in UserArgs, w \in BOOLEAN : PunchIn(u, TRUE, w)
    \/ \E u \in UserArgs, n \in NotesArgs, w \in BOOLEAN :
           PunchOut(u, n, TRUE, w)
    \/ \E u \in UserArgs : GetStatus(u, TRUE)

SpecImport == InitImport /\ [][NextImport]_vars

----------------------------------------------------------------------------
(* The queries, on stores as the punch operations and importData leave     *)
(* them, around the turn of the year 2023/2024.  One query is asked of     *)
(* each store: a query leaves the store as it is, so a second query finds  *)
(* what the first one found.                                               *)

\* Tuesday 2023-12-26: the week from it ends on Monday 2024-01-01
WeekStart == DaysFromCivil(2023, 12, 26)

QueryDates ==
    {WeekStart - 1, WeekStart, WeekStart + 3, WeekStart + 6, WeekStart + 7}

\* The record of day d with these punch times, as punchIn and punchOut
\* write its fields
QueryRecord(d, pin, pout, hours) ==
    [date |-> d,
     punchIn |-> pin,
     punchInTimestamp |-> IF pin # NULL THEN <<d, ParseTime(pin)>> ELSE NULL,
     punchOut |-> pout,
     punchOutTimestamp |-> IF pout # NULL THEN <<d, ParseTime(pout)>>
                           ELSE NULL,
     workingHours |-> hours,
     notes |-> IF pout # NULL THEN <<"o", "k">> ELSE << >>]

\* punchIn at 09:00:00 and punchOut at the given second of the day
Worked(d, out) ==
    QueryRecord(d, FormatTime(32400), FormatTime(out),
                calculateHours(FormatTime(32400), FormatTime(out)))

\* What a day's record may be: without punchIn, open, closed after 4 hours,
\* closed after 8.5 hours
DayShapes == {"none", "open", "half", "full"}

ShapedRecord(d, shape) ==
    CASE shape = "none" -> QueryRecord(d, NULL, NULL, 0)
      [] shape = "open" -> QueryRecord(d, FormatTime(32400), NULL, 0)
      [] shape = "half" -> Worked(d, 46800)
      [] shape = "full" -> Worked(d, 63000)

\* Records at the thresholds of the status rules: closed after 0:00:00,
\* 3:59:59, 7:59:59 and 8:00:00, and an imported record that has hours and
\* punchOut but no punchIn
EdgeRecords ==
    {Worked(WeekStart, out) : out \in {32400, 46799, 61199, 61200}}
        \cup {QueryRecord(WeekStart, NULL, FormatTime(61200), 28800)}

\* The other user always has one closed record inside every queried range
OtherUser == "bob@sparrow.io"

OtherRecords ==
    Put(EmptyMap, WeekStart + 3, Worked(WeekStart + 3, 41400))

QueryUserRecords ==
    {Put(EmptyMap, WeekStart, r) : r \in EdgeRecords} \cup
    UNION {{[d \in D |-> ShapedRecord(d, f[d])] : f \in [D -> DayShapes]} :
              D \in {S \in SUBSET QueryDates : Cardinality(S) <= MaxRecords}}

QueryStores ==
    {IF m = EmptyMap THEN Put(EmptyMap, OtherUser, OtherRecords)
     ELSE Put(Put(EmptyMap, OtherUser, OtherRecords), "ann@sparrow.io", m) :
         m \in QueryUserRecords}

InitQuery ==
    /\ store \in QueryStores
    /\ today = WeekStart
    /\ now = 64800
    /\ pre = store
    /\ last = ClockMoved
    /\ steps = MaxSteps - 1
    /\ inflight = NoCalls

\* What a query leaves in `last`
Asked(op, userEmail, args, tz, result) ==
    [op |-> op, user |-> userEmail, success |-> TRUE, message |-> "",
     reads |-> 1, writes |-> 0, writeFailed |-> FALSE,
     args |-> args, tz |-> tz, result |-> result]

GetHistory(userEmail, startDate, endDate, tz, readOk) ==
    /\ Step
    /\ last' = Asked("getHistory", userEmail, <<startDate, endDate>>, tz,
                     getAttendanceHistory(userEmail, startDate, endDate, tz,
                                          readOk))
    /\ store' = AfterQuery(getAttendanceRecords(readOk), userEmail)
    /\ UNCHANGED <<today, now, inflight>>

WeeklySummary(userEmail, weekStartDate, tz, readOk) ==
    /\ Step
    /\ last' = Asked("getWeeklySummary", userEmail, <<weekStartDate>>, tz,
                     getWeeklySummary(userEmail, weekStartDate, tz, readOk))
    /\ store' = AfterQuery(getAttendanceRecords(readOk), userEmail)
    /\ UNCHANGED <<today, now, inflight>>

MonthlySummary(userEmail, year, month, tz, readOk) ==
    /\ Step
    /\ last' = Asked("getMonthlySummary", userEmail, <<year, month>>, tz,
                     getMonthlySummary(userEmail, year, month, tz, readOk))
    /\ store' = AfterQuery(getAttendanceRecords(readOk), userEmail)
    /\ UNCHANGED <<today, now, inflight>>

ExportToCSV(userEmail, startDate, endDate, tz, readOk) ==
    /\ Step
    /\ last' = Asked("exportToCSV", userEmail, <<startDate, endDate>>, tz,
                     exportToCSV(userEmail, startDate, endDate, tz, readOk))
    /\ store' = AfterQuery(getAttendanceRecords(readOk), userEmail)
    /\ UNCHANGED <<today, now, inflight>>

\* The dates that ranges are asked between
RangeEnds == {DateKey(WeekStart), DateKey(WeekStart + 3),
              DateKey(WeekStart + 6)}

\* The months that hold the records
QueryMonths == {<<2023, 12>>, <<2024, 1>>}

NextQuery ==
    \/ \E u \in UserArgs : GetStatus(u, TRUE)
    \/ \E u \in Users, s \in RangeEnds, e \in RangeEnds, tz \in TimeZones :
           GetHistory(u, s, e, tz, TRUE)
    \/ \E u \in Users, tz \in TimeZones :
           WeeklySummary(u, DateKey(WeekStart), tz, TRUE)
    \/ \E u \in Users, ym \in QueryMonths, tz \in TimeZones :
           MonthlySummary(u, ym[1], ym[2], tz, TRUE)
    \/ \E u \in Users, s \in RangeEnds, e \in RangeEnds, tz \in TimeZones :
           ExportToCSV(u, s, e, tz, TRUE)

SpecQuery == InitQuery /\ [][NextQuery]_vars

\* The monthly summary of every month of a common year, of leap years and
\* of a century year that is not a leap year, on a few stores
Years == {2000, 2023, 2024, 2100}

CalendarStores ==
    {Put(EmptyMap, OtherUser, OtherRecords)} \cup
    {Put(Put(EmptyMap, OtherUser, OtherRecords), "ann@sparrow.io",
         Put(EmptyMap, d, ShapedRecord(d, "full"))) :
         d \in {WeekStart, DaysFromCivil(2024, 2, 29)}}

InitCalendar ==
    /\ store \in CalendarStores
    /\ today = WeekStart
    /\ now = 64800
    /\ pre = store
    /\ last = ClockMoved
    /\ steps = MaxSteps - 1
    /\ inflight = NoCalls

NextCalendar ==
    \E y \in Years, m \in 1..12, tz \in TimeZones :
        MonthlySummary("ann@sparrow.io", y, m, tz, TRUE)

SpecCalendar == InitCalendar /\ [][NextCalendar]_vars

\* Days are punched in and out with notes of every kind, and exported
NotesTexts ==
    {<< >>,
     <<" ", "o", "k", "\n">>,
     <<"a", ",", "b">>,
     <<"a", "\"", "b">>,
     <<"a", "\n", "b">>}

NextExport ==
    \/ PunchIn("ann@sparrow.io", TRUE, TRUE)
    \/ \E n \in NotesTexts : PunchOut("ann@sparrow.io", n, TRUE, TRUE)
    \/ NextDay
    \/ \E tz \in TimeZones :
           ExportToCSV("ann@sparrow.io", DateKey(1), DateKey(MaxDate), tz,
                       TRUE)

SpecExport == Init /\ [][NextExport]_vars

\* formatHours of every duration of whole seconds up to MaxSeconds, as
\* calculateHours returns it for two clock readings of one day
FormatHours(hours) ==
    /\ Step
    /\ last' = [op |-> "formatHours", user |-> "", success |-> TRUE,
                message |-> "", reads |-> 0, writes |-> 0,
                writeFailed |-> FALSE, args |-> hours,
                result |-> formatHours(hours)]
    /\ UNCHANGED <<store, today, now, inflight>>

InitFormat ==
    /\ store = EmptyMap
    /\ today = 1
    /\ now = 0
    /\ pre = EmptyMap
    /\ last = ClockMoved
    /\ steps = MaxSteps - 1
    /\ inflight = NoCalls

NextFormat == \E hours \in 0..MaxSeconds : FormatHours(hours)

SpecFormat == InitFormat /\ [][NextFormat]_vars

----------------------------------------------------------------------------
(* Reading the last step *)

\* The record of (u, d) in mapping m, for HasRecord(m, u, d)
Rec(m, u, d) == m[u][d]

IsOpen(r) == r.punchIn # NULL /\ r.punchOut = NULL

IsClosed(r) == r.punchIn # NULL /\ r.punchOut # NULL

\* The last step was a call of op by a named user
CalledBy(op, u) == last.op = op /\ last.user = u

----------------------------------------------------------------------------
(* C1: punchIn succeeds only from Absent.  Whenever today's record of the  *)
(* user already has punchIn set (Open or Closed), punchIn returns the      *)
(* AlreadyPunchedIn failure and the store is left exactly as it was; a     *)
(* punchIn that succeeded found no record for (user, today).               *)
C1_PunchInOnlyFromAbsent ==
    \A u \in Users :
        CalledBy("punchIn", u) =>
            /\ (HasRecord(pre, u, today) /\ Rec(pre, u, today).punchIn # NULL)
                   => /\ ~last.success
                      /\ last.message = "You have already punched in today"
                      /\ last.writes = 0
                      /\ store = pre
            /\ last.success => ~HasRecord(pre, u, today)

\* punchIn was rejected on a Closed record
C1_Witness ==
    \E u \in Users :
        /\ CalledBy("punchIn", u)
        /\ last.message = "You have already punched in today"
        /\ HasRecord(pre, u, today)
        /\ IsClosed(Rec(pre, u, today))

----------------------------------------------------------------------------
(* C2: punchOut succeeds only from Open.  It fails with NoPunchInFound     *)
(* when the user has no record for today, with AlreadyPunchedOut when      *)
(* today's record has punchOut set, and with PunchInMissing when today's   *)
(* record has neither punchIn nor punchOut; in each of these failures no   *)
(* write is made and the store is unchanged.                               *)
C2_PunchOutOnlyFromOpen ==
    \A u \in Users :
        CalledBy("punchOut", u) =>
            /\ ~HasRecord(pre, u, today)
                   => /\ ~last.success
                      /\ last.message = "No punch in record found for today"
                      /\ last.writes = 0
                      /\ store = pre
            /\ (HasRecord(pre, u, today) /\ Rec(pre, u, today).punchOut # NULL)
                   => /\ ~last.success
                      /\ last.message = "You have already punched out today"
                      /\ last.writes = 0
                      /\ store = pre
            /\ (/\ HasRecord(pre, u, today)
                /\ Rec(pre, u, today).punchIn = NULL
                /\ Rec(pre, u, today).punchOut = NULL)
                   => /\ ~last.success
                      /\ last.message = "Please punch in first"
                      /\ last.writes = 0
                      /\ store = pre
            /\ last.success
                   => HasRecord(pre, u, today) /\ IsOpen(Rec(pre, u, today))

\* punchOut was rejected on a record that has neither punch
C2_Witness ==
    \E u \in Users :
        /\ CalledBy("punchOut", u)
        /\ last.message = "Please punch in first"
        /\ HasRecord(pre, u, today)
        /\ Rec(pre, u, today).punchIn = NULL
        /\ Rec(pre, u, today).punchOut = NULL

----------------------------------------------------------------------------
(* C3: idempotent day-close.  Every step taken from a state in which a     *)
(* (user, date) record has both punchIn and punchOut leaves that record    *)
(* as it is, and while that date is the current date a punchOut by the     *)
(* user fails with AlreadyPunchedOut and a punchIn by the user fails with  *)
(* AlreadyPunchedIn.  (pre is the state every step starts from, so this    *)
(* holds of every later step.)                                             *)
C3_IdempotentDayClose ==
    \A u \in Users, d \in Dates :
        (HasRecord(pre, u, d) /\ IsClosed(Rec(pre, u, d))) =>
            /\ HasRecord(store, u, d)
            /\ Rec(store, u, d) = Rec(pre, u, d)
            /\ (d = today /\ CalledBy("punchOut", u))
                   => /\ ~last.success
                      /\ last.message = "You have already punched out today"
            /\ (d = today /\ CalledBy("punchIn", u))
                   => /\ ~last.success
                      /\ last.message = "You have already punched in today"

\* punchOut was called again on a Closed record of today
C3_Witness ==
    \E u \in Users :
        /\ CalledBy("punchOut", u)
        /\ HasRecord(pre, u, today)
        /\ IsClosed(Rec(pre, u, today))
        /\ last.message = "You have already punched out today"

----------------------------------------------------------------------------
(* C4: every stored record that has punchOut set also has punchIn set.     *)
C4_PunchOutImpliesPunchIn ==
    \A u \in DOMAIN store : \A d \in DOMAIN store[u] :
        store[u][d].punchOut # NULL => store[u][d].punchIn # NULL

\* a record has been closed by a punchOut
C4_Witness ==
    /\ last.op = "punchOut"
    /\ last.success
    /\ Rec(store, last.user, today).punchOut # NULL

----------------------------------------------------------------------------
(* C5: every stored record's workingHours is non-negative; it is 0 while   *)
(* the record is Open, and for a Closed record it is the punchOut time of  *)
(* day minus the punchIn time of day when that is positive, and 0 when     *)
(* the punchOut time of day precedes or equals the punchIn time of day.    *)
SecondsOfDay(t) == t[1] * 3600 + t[2] * 60 + t[3]

C5_WorkingHours ==
    \A u \in DOMAIN store : \A d \in DOMAIN store[u] :
        LET r == store[u][d]
        IN  /\ r.workingHours >= 0
            /\ IsOpen(r) => r.workingHours = 0
            /\ IsClosed(r) =>
                   IF SecondsOfDay(r.punchOut) <= SecondsOfDay(r.punchIn)
                   THEN r.workingHours = 0
                   ELSE r.workingHours =
                            SecondsOfDay(r.punchOut) - SecondsOfDay(r.punchIn)

\* a record was closed at a time of day before its punchIn
C5_Witness ==
    \E u \in DOMAIN store : \E d \in DOMAIN store[u] :
        /\ IsClosed(store[u][d])
        /\ SecondsOfDay(store[u][d].punchOut)
               < SecondsOfDay(store[u][d].punchIn)
        /\ store[u][d].workingHours = 0

----------------------------------------------------------------------------
(* C6: when the store write fails during punchIn, punchIn returns the      *)
(* PersistenceFailure result and no partial state is visible: the store is *)
(* what it was before the call, getStatus then reports not_punched_in,     *)
(* and a retried punchIn is not rejected as AlreadyPunchedIn.              *)
C6_PunchInWriteFailure ==
    \A u \in Users :
        (CalledBy("punchIn", u) /\ last.writeFailed) =>
            /\ ~last.success
            /\ last.message = "Failed to record punch in. Please try again."
            /\ store = pre
            /\ getAttendanceStatus(u, TRUE).status = "not_punched_in"
            /\ \A w \in BOOLEAN :
                   punchIn(u, TRUE, w).message
                       # "You have already punched in today"
            /\ punchIn(u, TRUE, TRUE).success

\* a punchIn lost its write while other records were in the store
C6_Witness ==
    \E u \in Users :
        /\ CalledBy("punchIn", u)
        /\ last.writeFailed
        /\ pre # EmptyMap

----------------------------------------------------------------------------
(* C7: when the store write fails during punchOut, punchOut returns the    *)
(* PersistenceFailure result and the in-memory update is discarded: the    *)
(* stored record is still Open (punchOut absent, workingHours 0, notes as  *)
(* before), and a retried punchOut is not rejected as AlreadyPunchedOut.   *)
C7_PunchOutWriteFailure ==
    \A u \in Users :
        (CalledBy("punchOut", u) /\ last.writeFailed) =>
            /\ ~last.success
            /\ last.message = "Failed to record punch out. Please try again."
            /\ store = pre
            /\ HasRecord(store, u, today)
            /\ IsOpen(Rec(store, u, today))
            /\ Rec(store, u, today).workingHours = 0
            /\ Rec(store, u, today).notes = Rec(pre, u, today).notes
            /\ \A n \in NotesArgs, w \in BOOLEAN :
                   punchOut(u, n, TRUE, w).message
                       # "You have already punched out today"
            /\ \A n \in NotesArgs : punchOut(u, n, TRUE, TRUE).success

\* a punchOut lost its write
C7_Witness ==
    \E u \in Users :
        /\ CalledBy("punchOut", u)
        /\ last.writeFailed
        /\ HasRecord(pre, u, today)
        /\ IsOpen(Rec(pre, u, today))

----------------------------------------------------------------------------
(* C8: punchIn and punchOut called without a user identifier return the    *)
(* InvalidUser failure before touching the store: they make no store read  *)
(* and no store write, and the store is unchanged.                         *)
C8_InvalidUser ==
    (last.op \in {"punchIn", "punchOut"} /\ last.user = "") =>
        /\ ~last.success
        /\ last.message = "User email is required"
        /\ last.reads = 0
        /\ last.writes = 0
        /\ store = pre
        /\ "" \notin DOMAIN store

\* punchOut was called without a user while the store held records
C8_Witness ==
    /\ last.op = "punchOut"
    /\ last.user = ""
    /\ last.message = "User email is required"
    /\ pre # EmptyMap

----------------------------------------------------------------------------
(* C9: records only accumulate and each is completed exactly once.  Over   *)
(* every step: a record that was stored is still stored, with the same     *)
(* punchIn, and with the same punchOut if it had one; a record appears     *)
(* only by a successful punchIn of that user on the current date, as an    *)
(* Open record with workingHours 0 and empty notes; a punchOut appears on  *)
(* a record only by a successful punchOut of that user on the current      *)
(* date, which found the record Open.                                      *)
C9_RecordsAccumulate ==
    /\ DOMAIN pre \subseteq DOMAIN store
    /\ \A u \in Users, d \in Dates :
        /\ HasRecord(pre, u, d) =>
               /\ HasRecord(store, u, d)
               /\ Rec(store, u, d).punchIn = Rec(pre, u, d).punchIn
               /\ Rec(pre, u, d).punchOut # NULL =>
                      Rec(store, u, d).punchOut = Rec(pre, u, d).punchOut
               /\ (/\ Rec(pre, u, d).punchOut = NULL
                   /\ Rec(store, u, d).punchOut # NULL) =>
                      /\ CalledBy("punchOut", u)
                      /\ last.success
                      /\ d = today
        /\ (~HasRecord(pre, u, d) /\ HasRecord(store, u, d)) =>
               /\ CalledBy("punchIn", u)
               /\ last.success
               /\ d = today
               /\ Rec(store, u, d).punchIn # NULL
               /\ Rec(store, u, d).punchOut = NULL
               /\ Rec(store, u, d).workingHours = 0
               /\ Rec(store, u, d).notes = << >>
        /\ (CalledBy("punchIn", u) /\ last.success /\ d = today) =>
               ~HasRecord(pre, u, d) /\ HasRecord(store, u, d)
        /\ (CalledBy("punchOut", u) /\ last.success /\ d = today) =>
               /\ HasRecord(pre, u, d)
               /\ Rec(pre, u, d).punchOut = NULL
               /\ Rec(store, u, d).punchOut # NULL

\* a second record of a user was created beside a completed one
C9_Witness ==
    \E u \in Users, d \in Dates :
        /\ d # today
        /\ HasRecord(store, u, d)
        /\ IsClosed(Rec(store, u, d))
        /\ CalledBy("punchIn", u)
        /\ last.success
        /\ ~HasRecord(pre, u, today)
        /\ HasRecord(store, u, today)

----------------------------------------------------------------------------
(* C10: a punchIn or punchOut by user u on the current date d changes at   *)
(* most the entry (u, d) of the store: every other user's records and u's  *)
(* records of every other date are what they were before the call.         *)
C10_Frame ==
    last.op \in {"punchIn", "punchOut"} =>
        \A u \in Users, d \in Dates :
            (u # last.user \/ d # today) =>
                /\ HasRecord(store, u, d) <=> HasRecord(pre, u, d)
                /\ HasRecord(pre, u, d) => Rec(store, u, d) = Rec(pre, u, d)

\* a punch changed one entry while another user and another date had records
C10_Witness ==
    \E u \in Users, v \in Users, d \in Dates :
        /\ last.op \in {"punchIn", "punchOut"}
        /\ last.user = u
        /\ last.success
        /\ store # pre
        /\ v # u
        /\ d # today
        /\ HasRecord(pre, u, d)
        /\ \E e \in Dates : HasRecord(pre, v, e)

----------------------------------------------------------------------------
(* C11 .. C20 read the result of a query from `last` *)

\* The last step was getAttendanceStatus(u)
StatusAsked(u) == last.op = "getStatus" /\ last.user = u

----------------------------------------------------------------------------
(* C12: getStatus(user) is a faithful view of today's record: it returns   *)
(* not_punched_in exactly when no record exists for (user, today),         *)
(* punched_in exactly when the record has punchIn and no punchOut,         *)
(* completed exactly when it has both, reporting the stored workingHours,  *)
(* and unknown exactly when a record exists without punchIn.               *)
C12_StatusIsFaithful ==
    \A u \in UserArgs :
        StatusAsked(u) =>
            LET exists == HasRecord(store, u, today)
            IN  /\ last.message \in {"not_punched_in", "punched_in",
                                     "completed", "unknown"}
                /\ last.message = "not_punched_in" <=> ~exists
                /\ last.message = "punched_in" <=>
                       (exists /\ IsOpen(Rec(store, u, today)))
                /\ last.message = "completed" <=>
                       (exists /\ IsClosed(Rec(store, u, today)))
                /\ last.message = "unknown" <=>
                       (exists /\ Rec(store, u, today).punchIn = NULL)
                /\ last.message = "completed" =>
                       last.workingHours = Rec(store, u, today).workingHours

\* getStatus answered unknown on a record that has a punchOut but no punchIn
C12_Witness ==
    \E u \in Users :
        /\ StatusAsked(u)
        /\ last.message = "unknown"
        /\ HasRecord(store, u, today)
        /\ Rec(store, u, today).punchOut # NULL

----------------------------------------------------------------------------
(* C13: the defensive branches are unreachable through the state machine:  *)
(* from an empty store, after any sequence of punchIn, punchOut and        *)
(* getStatus calls and clock changes, with store writes allowed to fail,   *)
(* no stored record lacks punchIn, punchOut never returns PunchInMissing   *)
(* and getStatus never returns unknown.                                    *)
C13_DefensiveBranchesUnreachable ==
    /\ \A u \in DOMAIN store : \A d \in DOMAIN store[u] :
           store[u][d].punchIn # NULL
    /\ last.op = "punchOut" => last.message # "Please punch in first"
    /\ last.op = "getStatus" => last.message # "unknown"

\* getStatus was asked about a completed day after an earlier day's record
C13_Witness ==
    \E u \in Users, d \in Dates :
        /\ StatusAsked(u)
        /\ last.message = "completed"
        /\ d # today
        /\ HasRecord(store, u, d)

----------------------------------------------------------------------------
(* C14, as amended: while a record of today is Open, getStatus returns     *)
(* punched_in with a live elapsed figure that is recomputed from the       *)
(* clock: it is the current time of day minus the punchIn time of day,     *)
(* clamped at 0, so it is never negative, it is positive as soon as the    *)
(* clock reads later than punchIn, it is 0 when the status is asked at     *)
(* the punch-in reading itself, and asked again at any later reading of    *)
(* the same day it is no smaller.                                          *)
\* What getStatus(u) would report as elapsed at clock reading t
ElapsedAt(u, t) ==
    LET pin == SecondsOfDay(Rec(store, u, today).punchIn)
    IN  IF t > pin THEN t - pin ELSE 0

C14_LiveElapsedHours ==
    \A u \in Users :
        (StatusAsked(u) /\ HasRecord(store, u, today)
                        /\ IsOpen(Rec(store, u, today))) =>
            /\ last.message = "punched_in"
            /\ last.workingHours = ElapsedAt(u, now)
            /\ last.workingHours >= 0
            /\ now > SecondsOfDay(Rec(store, u, today).punchIn)
                   => last.workingHours > 0
            /\ Rec(store, u, today).workingHours = 0
            /\ \A t \in ClockReadings :
                   t >= now => ElapsedAt(u, t) >= last.workingHours

\* getStatus reported a positive elapsed figure for an Open record
C14_Witness ==
    \E u \in Users :
        /\ StatusAsked(u)
        /\ last.message = "punched_in"
        /\ last.workingHours > 0

\* C14 as stated: the elapsed figure of an Open record is always non-zero
C14_Original ==
    \A u \in Users :
        (StatusAsked(u) /\ HasRecord(store, u, today)
                        /\ IsOpen(Rec(store, u, today))) =>
            /\ last.message = "punched_in"
            /\ last.workingHours > 0

----------------------------------------------------------------------------
(* C11: the read-only operations getAttendanceStatus, getAttendanceHistory,*)
(* getWeeklySummary, getMonthlySummary and exportToCSV have no side        *)
(* effects: whatever the store holds and whatever the arguments, the store *)
(* after the call is the store before the call, and no write is made.      *)
QueryOps ==
    {"getStatus", "getHistory", "getWeeklySummary", "getMonthlySummary",
     "exportToCSV"}

C11_QueriesHaveNoSideEffects ==
    last.op \in QueryOps => (store = pre /\ last.writes = 0)

\* An export that wrote a row for a user who has records, and a query for a
\* user who has none are both asked; this is the export
C11_Witness ==
    /\ last.op = "exportToCSV"
    /\ Len(last.result) > 2
    /\ Has(store, last.user)
    /\ store = pre

----------------------------------------------------------------------------
(* C15: the core gives no protection against same-user races.  When the    *)
(* read and the write of punchIn are separate steps, a call whose write    *)
(* succeeds leaves in the store exactly the mapping it built from its own  *)
(* read, whatever another caller wrote in between: the record it returns   *)
(* as punched in is the stored one, and an earlier writer's is replaced.   *)
C15_LastWriterWins ==
    \A c \in Callers :
        (last.op = "punchIn" /\ last.caller = c /\ last.success) =>
            /\ inflight[c].pc = "done"
            /\ store = inflight[c].records
            /\ Rec(store, last.user, today).punchIn = inflight[c].punchIn

\* Both calls for the same user and date returned success, and the record
\* of the caller that wrote first is gone: its punchIn time is not stored
C15_Witness ==
    \E c1 \in Callers, c2 \in Callers :
        /\ c1 # c2
        /\ inflight[c1].pc = "done" /\ inflight[c1].success
        /\ inflight[c2].pc = "done" /\ inflight[c2].success
        /\ inflight[c1].user = inflight[c2].user
        /\ last.op = "punchIn" /\ last.caller = c2
        /\ inflight[c1].punchIn # inflight[c2].punchIn
        /\ Rec(store, last.user, today).punchIn = inflight[c2].punchIn
        /\ Rec(store, last.user, today).punchIn # inflight[c1].punchIn

----------------------------------------------------------------------------
(* Dates as the reader of a summary compares them *)

\* a is before b, for two 'YYYY-MM-DD' dates
DateBefore(a, b) ==
    \/ a[1] < b[1]
    \/ a[1] = b[1] /\ a[2] < b[2]
    \/ a[1] = b[1] /\ a[2] = b[2] /\ a[3] < b[3]

DateWithin(d, startDate, endDate) ==
    ~DateBefore(d, startDate) /\ ~DateBefore(endDate, d)

\* The stored day numbers of the user's records dated within the range
KeysWithin(u, startDate, endDate) ==
    IF Has(store, u)
    THEN {k \in DOMAIN store[u] : DateWithin(DateKey(k), startDate, endDate)}
    ELSE {}

\* The entries are the user's own records of exactly these stored days, one
\* entry each, newest first
ListsExactly(history, u, keys) ==
    /\ Len(history) = Cardinality(keys)
    /\ {history[i].date : i \in 1..Len(history)} = {DateKey(k) : k \in keys}
    /\ \A i \in 1..Len(history) : \A k \in keys :
           history[i].date = DateKey(k) =>
               /\ history[i].punchIn = store[u][k].punchIn
               /\ history[i].punchOut = store[u][k].punchOut
               /\ history[i].workingHours = store[u][k].workingHours
               /\ history[i].notes = store[u][k].notes
    /\ \A i \in 1..Len(history) : \A j \in 1..Len(history) :
           i < j => DateBefore(history[j].date, history[i].date)

----------------------------------------------------------------------------
(* C16: getAttendanceHistory(user, startDate, endDate) returns exactly one *)
(* entry per record of that user whose date lies in the inclusive range    *)
(* [startDate, endDate]: no date outside the range, no date without a      *)
(* record, no record of another user, and the entries are in strictly      *)
(* descending order of date.                                               *)
C16_HistoryIsTheRange ==
    last.op = "getHistory" =>
        ListsExactly(last.result, last.user,
                     KeysWithin(last.user, last.args[1], last.args[2]))

\* Two of the user's three records are within the range asked for, on its
\* first and its last day, and the third is not
C16_Witness ==
    /\ last.op = "getHistory"
    /\ Len(last.result) = 2
    /\ last.result[1].date = last.args[2]
    /\ last.result[2].date = last.args[1]
    /\ Has(store, last.user)
    /\ Cardinality(DOMAIN store[last.user]) = 3

----------------------------------------------------------------------------
(* Counting the entries of a summary *)

Present(h) == {i \in 1..Len(h) : h[i].punchIn # NULL}

WithHours(h) == {i \in 1..Len(h) : h[i].workingHours > 0}

WorkedDays(h) == Present(h) \cap WithHours(h)

RECURSIVE HoursOver(_, _)
HoursOver(h, S) ==
    IF S = {} THEN 0
    ELSE LET i == CHOOSE x \in S : TRUE
         IN  h[i].workingHours + HoursOver(h, S \ {i})

IsSummary == last.op \in {"getWeeklySummary", "getMonthlySummary"}

----------------------------------------------------------------------------
----------------------------------------------------------------------------
(* C18: getWeeklySummary(user, weekStartDate) aggregates exactly the       *)
(* user's records dated weekStartDate through weekStartDate + 6, also      *)
(* across a month or year boundary: a record dated weekStartDate or        *)
(* weekStartDate + 6 is included, one dated weekStartDate - 1 or           *)
(* weekStartDate + 7 is not, and weekEnd is weekStartDate + 6.             *)
C18_WeekIsSevenDaysFromStart ==
    last.op = "getWeeklySummary" =>
        LET first == DaysFromCivil(last.args[1][1], last.args[1][2],
                                   last.args[1][3])
        IN  /\ last.result.weekEnd = CivilFromDays(first + 6)
            /\ ListsExactly(last.result.records, last.user,
                            IF Has(store, last.user)
                            THEN {k \in DOMAIN store[last.user] :
                                      first <= k /\ k <= first + 6}
                            ELSE {})

----------------------------------------------------------------------------
(* The calendar as printed: the length of a month and the day of the week  *)
(* of a date (0 is Sunday), by the leap-year rule and Sakamoto's method    *)

LeapYear(y) == (y % 4 = 0 /\ y % 100 # 0) \/ y % 400 = 0

MonthLength(y, m) ==
    IF m = 2 THEN (IF LeapYear(y) THEN 29 ELSE 28)
    ELSE IF m \in {4, 6, 9, 11} THEN 30 ELSE 31

DayOfWeek(y, m, d) ==
    LET t == <<0, 3, 2, 5, 0, 3, 5, 1, 4, 6, 2, 4>>
        yy == IF m < 3 THEN y - 1 ELSE y
    IN  (yy + yy \div 4 - yy \div 100 + yy \div 400 + t[m] + d) % 7

Weekdays(y, m) ==
    Cardinality({d \in 1..MonthLength(y, m) :
                     DayOfWeek(y, m, d) \in 1..5})

----------------------------------------------------------------------------
(* C19: workingDaysInMonth(year, month) is the number of calendar days of  *)
(* that month that are neither Saturday nor Sunday, for every year and     *)
(* month 1..12; February 2024, 29 days from a Thursday, has 21; and the    *)
(* value in a monthly summary does not depend on the records in the store. *)
C19_WorkingDaysAreWeekdays ==
    last.op = "getMonthlySummary" =>
        /\ last.result.workingDaysInMonth = Weekdays(last.args[1], last.args[2])
        /\ last.args = <<2024, 2>> =>
               /\ MonthLength(2024, 2) = 29
               /\ DayOfWeek(2024, 2, 1) = 4
               /\ last.result.workingDaysInMonth = 21

\* The summary of February 2024 for a user with a record on the leap day
C19_Witness ==
    /\ last.op = "getMonthlySummary"
    /\ last.args = <<2024, 2>>
    /\ Len(last.result.records) = 1
    /\ last.result.records[1].date = <<2024, 2, 29>>
    /\ last.result.workingDaysInMonth = 21

----------------------------------------------------------------------------
(* C20: the status label of a history entry is decided by the first rule   *)
(* that matches, in this order: no punchIn, 'No Punch In'; punchIn without *)
(* punchOut, 'Missing Punch Out'; workingHours < 4, 'Short Day';           *)
(* workingHours >= 8, 'Full Day'; otherwise 'Partial Day'.  A day punched  *)
(* in at 09:00:00 and out at 17:30:00 has workingHours 8.5, formatted      *)
(* '8h 30m', and is a 'Full Day'; a completed day of 0 hours is a          *)
(* 'Short Day'.                                                            *)
C20_RecordStatus ==
    last.op = "getHistory" =>
        \A i \in 1..Len(last.result) :
            LET e == last.result[i]
            IN  /\ e.status =
                       CASE e.punchIn = NULL -> "No Punch In"
                         [] e.punchIn # NULL /\ e.punchOut = NULL
                                -> "Missing Punch Out"
                         [] e.punchIn # NULL /\ e.punchOut # NULL
                                /\ e.workingHours < 4 * 3600 -> "Short Day"
                         [] e.punchIn # NULL /\ e.punchOut # NULL
                                /\ e.workingHours >= 8 * 3600 -> "Full Day"
                         [] OTHER -> "Partial Day"
                /\ (e.punchIn = <<9, 0, 0>> /\ e.punchOut = <<17, 30, 0>>) =>
                       /\ 2 * e.workingHours = 17 * 3600
                       /\ e.formattedHours = [form |-> "Hh Mm", hours |-> 8,
                                              minutes |-> 30]
                       /\ e.status = "Full Day"
                /\ (e.punchIn # NULL /\ e.punchOut # NULL
                        /\ e.workingHours = 0) => e.status = "Short Day"

\* A history with the 09:00:00 to 17:30:00 day before a day closed after
\* 4 hours, which is a 'Partial Day'
C20_Witness ==
    /\ last.op = "getHistory"
    /\ Len(last.result) = 2
    /\ last.result[1].punchIn = <<9, 0, 0>>
    /\ last.result[1].punchOut = <<17, 30, 0>>
    /\ last.result[1].status = "Full Day"
    /\ last.result[2].status = "Partial Day"

----------------------------------------------------------------------------
(* C21: formatHours(h) splits h into whole hours H = floor(h) and minutes  *)
(* M = the remaining fraction times 60 rounded half-up, and renders        *)
(* '{M} minutes' when H = 0, '{H} hour' when M = 0 and H = 1, '{H} hours'  *)
(* when M = 0 and H > 1, and '{H}h {M}m' otherwise; so formatHours(0) is   *)
(* '0 minutes', formatHours(1) is '1 hour', formatHours(1.5) is '1h 30m'   *)
(* and formatHours(2) is '2 hours'.                                        *)
HalfUp(seconds) == (seconds + 30) \div 60

----------------------------------------------------------------------------
(* C27: for every non-negative duration of whole seconds, the minutes M    *)
(* rendered by formatHours lie in 0..59 and |H*60 + M - duration in        *)
(* minutes| <= 1/2; formatHours never renders '60 minutes' or '{H}h 60m'   *)
(* for a duration within 30 seconds below a whole hour.                    *)
C27_MinutesBelowSixty ==
    last.op = "formatHours" =>
        LET shown == 3600 * last.result.hours + 60 * last.result.minutes
        IN  /\ last.result.minutes \in 0..59
            /\ shown - last.args <= 30
            /\ last.args - shown <= 30

----------------------------------------------------------------------------
(* Reading a CSV text: its lines, and the quoted fields of a line *)

\* The positions in text of the character c, and the n-th of them
Places(text, c) == {i \in 1..Len(text) : text[i] = c}

Nth(S, n) == CHOOSE i \in S : Cardinality({j \in S : j < i}) = n - 1

\* The text ends with a line break; its n-th line, without the line break
LineCount(text) == Cardinality(Places(text, "\n"))

Line(text, n) ==
    LET breaks == Places(text, "\n")
        from == IF n = 1 THEN 1 ELSE Nth(breaks, n - 1) + 1
    IN  SubSeq(text, from, Nth(breaks, n) - 1)

\* The line is seven fields in double quotes with commas between them
SevenQuotedFields(line) ==
    LET quotes == Places(line, "\"")
    IN  /\ Cardinality(quotes) = 14
        /\ Nth(quotes, 1) = 1
        /\ Nth(quotes, 14) = Len(line)
        /\ \A f \in 1..6 :
               /\ Nth(quotes, 2 * f + 1) = Nth(quotes, 2 * f) + 2
               /\ line[Nth(quotes, 2 * f) + 1] = ","

\* The text of the f-th field of such a line
Field(line, f) ==
    LET quotes == Places(line, "\"")
    IN  SubSeq(line, Nth(quotes, 2 * f - 1) + 1, Nth(quotes, 2 * f) - 1)

----------------------------------------------------------------------------
(* C22: exportToCSV(user, startDate, endDate) produces the header row      *)
(* 'Date,Day,Punch In,Punch Out,Working Hours,Status,Notes' followed by    *)
(* exactly one line-terminated row per history entry, in the same          *)
(* descending order, each row having exactly seven double-quoted fields,   *)
(* absent punch times being the empty string; for every stored notes text, *)
(* also one that contains a double quote, a comma or a line break.         *)
C22_CsvRowPerEntry ==
    last.op = "exportToCSV" =>
        LET text == last.result
            history == getAttendanceHistory(last.user, last.args[1],
                                            last.args[2], last.tz, TRUE)
        IN  /\ text # << >> /\ text[Len(text)] = "\n"
            /\ LineCount(text) = 1 + Len(history)
            /\ Line(text, 1) =
                   <<"Date,Day,Punch In,Punch Out,Working Hours,Status,Notes">>
            /\ \A i \in 1..Len(history) :
                   LET line == Line(text, i + 1)
                       e == history[i]
                   IN  /\ SevenQuotedFields(line)
                       /\ Field(line, 1) = <<ToString(e.date)>>
                       /\ e.punchIn = NULL => Field(line, 3) = << >>
                       /\ e.punchIn # NULL =>
                              Field(line, 3) = <<ToString(e.punchIn)>>
                       /\ e.punchOut = NULL => Field(line, 4) = << >>
                       /\ e.punchOut # NULL =>
                              Field(line, 4) = <<ToString(e.punchOut)>>
                       /\ Field(line, 6) = <<e.status>>
                       /\ Field(line, 7) = e.notes

----------------------------------------------------------------------------
(* C23: serializing mutating calls per user is sufficient to lose no       *)
(* punch.  With at most one mutating call per user under way at a time,    *)
(* the calls of different users interleaving between their read and their  *)
(* write, every punchIn and punchOut that returned success is reflected in *)
(* the store once all calls have finished.                                 *)
C23_PerUserSerializationSuffices ==
    (\A c \in Callers : inflight[c].pc # "write") =>
        \A c \in Callers :
            (inflight[c].pc = "done" /\ inflight[c].success) =>
                /\ HasRecord(store, inflight[c].user, today)
                /\ inflight[c].op = "punchIn" =>
                       Rec(store, inflight[c].user, today).punchIn
                           = inflight[c].punchIn
                /\ inflight[c].op = "punchOut" =>
                       Rec(store, inflight[c].user, today).punchOut
                           = inflight[c].punchOut

----------------------------------------------------------------------------
(* C24: a store read failure never destroys stored attendance data.  When  *)
(* the read inside punchIn or punchOut fails and degrades to an empty      *)
(* mapping, the records that were in the store before the call, of every   *)
(* user and date, are in the store unchanged after the call, whether the   *)
(* call reports success or failure.                                        *)
C24_ReadFailureKeepsRecords ==
    (last.op \in {"punchIn", "punchOut"} /\ last.readFailed) =>
        \A u \in Users, d \in Dates :
            HasRecord(pre, u, d) =>
                HasRecord(store, u, d) /\ Rec(store, u, d) = Rec(pre, u, d)

----------------------------------------------------------------------------
(* C25: the canPunchIn and canPunchOut flags of getStatus agree with the   *)
(* state machine, in every store state, also on a record without punchIn:  *)
(* with nothing happening in between, canPunchIn is true exactly when the  *)
(* next punchIn(user) is not rejected as already punched in, and           *)
(* canPunchOut is true exactly when the next punchOut(user) is not         *)
(* rejected for no record, already punched out or punch-in missing.        *)
C25_FlagsAgreeWithPunches ==
    \A u \in Users :
        StatusAsked(u) =>
            /\ last.canPunchIn =
                   (punchIn(u, TRUE, TRUE).message
                        # "You have already punched in today")
            /\ last.canPunchOut =
                   (punchOut(u, << >>, TRUE, TRUE).message \notin
                        {"No punch in record found for today",
                         "You have already punched out today",
                         "Please punch in first"})

\* getStatus on a record without punchIn: punching in is allowed and would
\* succeed, punching out is not and would be refused
C25_Witness ==
    \E u \in Users :
        /\ StatusAsked(u)
        /\ HasRecord(store, u, today)
        /\ Rec(store, u, today).punchIn = NULL
        /\ last.canPunchIn /\ ~last.canPunchOut
        /\ punchIn(u, TRUE, TRUE).success
        /\ ~punchOut(u, << >>, TRUE, TRUE).success

----------------------------------------------------------------------------
(* C26: an Open record can only be closed on its own date.  Once the       *)
(* current date is past D while (user, D) is Open, no operation sets that  *)
(* record's punchOut or workingHours: it stays 'Missing Punch Out' with    *)
(* workingHours 0; punchOut(user) on the later date fails for want of a    *)
(* record until the user punches in on that date; and punchIn(user) on the *)
(* later date succeeds despite the older Open record.                      *)
StaleOpen(m, u, d) == d < today /\ HasRecord(m, u, d) /\ IsOpen(Rec(m, u, d))

C26_OpenRecordClosesOnlyOnItsDate ==
    \A u \in Users :
        /\ \A d \in Dates :
               StaleOpen(pre, u, d) =>
                   /\ StaleOpen(store, u, d)
                   /\ Rec(store, u, d) = Rec(pre, u, d)
                   /\ Rec(store, u, d).workingHours = 0
                   /\ getRecordStatus(Rec(store, u, d)) = "Missing Punch Out"
        /\ (CalledBy("punchOut", u) /\ ~HasRecord(pre, u, today)) =>
               /\ ~last.success
               /\ last.message = "No punch in record found for today"
        /\ (CalledBy("punchIn", u) /\ ~HasRecord(pre, u, today)
                /\ ~last.writeFailed) =>
               /\ last.success
               /\ HasRecord(store, u, today)
               /\ IsOpen(Rec(store, u, today))

\* On the day after an Open record, punchOut was refused for want of a
\* record, and the record of the day before is as it was
C26_Witness ==
    \E u \in Users, d \in Dates :
        /\ StaleOpen(pre, u, d)
        /\ StaleOpen(store, u, d)
        /\ CalledBy("punchOut", u)
        /\ last.message = "No punch in record found for today"

====
